---- MODULE Spec2Model ----
(***************************************************************************)
(* Model of bluepy/microbit.py: the three GATT service wrappers            *)
(* (TemperatureService, AcceleratorService, ButtonsService), the Microbit  *)
(* device handle and the command line driver main().                       *)
(*                                                                         *)
(* The BLE library (btle.Peripheral, Service, Characteristic) is the       *)
(* environment: each of its calls either returns or raises, chosen         *)
(* nondeterministically, and every call is appended to `log`, the way a    *)
(* mock transport would record it.                                         *)
(***************************************************************************)
EXTENDS Integers, Sequences, FiniteSets, TLC

VARIABLES
    args,         \* the parsed command line (argparse namespace)
    dev,          \* the characteristic values the remote device returns
    pc,           \* position of main()
    exitCode,     \* process exit status, meaningful when pc = "done"
    exc,          \* the exception propagating out of main(), or NoExc
    Debugging,    \* btle.Debugging, the library's global debug flag
    conns,        \* every connection opened so far, in order
    temperature,  \* Microbit.temperature  (TemperatureService fields)
    accelerator,  \* Microbit.accelerator  (AcceleratorService fields)
    buttons,      \* Microbit.buttons      (ButtonsService fields)
    counter,      \* main()'s loop counter
    nextHandle,   \* last object reference handed out by the library
    log,          \* library calls and output lines, in order
    result,       \* outcome of the last wrapper call made through the API
    nops          \* number of wrapper calls made through the API

vars == <<args, dev, pc, exitCode, exc, Debugging, conns, temperature,
          accelerator, buttons, counter, nextHandle, log, result, nops>>

-----------------------------------------------------------------------------
(* Bounds of the model *)

MaxCount == 2

MaxOps == 3

MaxPayloadLen == 7

MaxDecodeOps == 2

-----------------------------------------------------------------------------
(* Program constants *)

None == -1

ACCEL_SERVICE == 1875

ACCEL_DATA == 51787

BTN_SERVICE == 39042

BTN_A_STATE == 55952

BTN_B_STATE == 55953

TEMP_SERVICE == 24832

TEMP_DATA == 37456

ADDR_TYPE_RANDOM == "random"

NoExc == "none"

Microbit_UUID(val) == <<"E95D", val, "251D-470A-A062-FA1922DFA9A8">>

SecurityChoices == {"no-pairing", "just-works", "passkey", "low", "medium", "high"}

-----------------------------------------------------------------------------
(* Sample inputs *)

MacAddresses == {"C0:FF:EE:00:00:01"}

Interfaces == {0, 1}

PollDelays == {1}

SampleBytes == {1, 128, 255}

RECURSIVE SeqsOfLen(_)
SeqsOfLen(n) ==
    IF n = 0 THEN {<<>>}
    ELSE {Append(s, b) : s \in SeqsOfLen(n - 1), b \in SampleBytes}

Payloads == UNION {SeqsOfLen(n) : n \in 0..MaxPayloadLen}

\* what btle raises from unpair(): (code, estat) pairs
UnpairErrors ==
    {[code |-> c, estat |-> s] : c \in {"DISCONNECTED", "COMM_ERROR"}, s \in {0, 6}}

-----------------------------------------------------------------------------
(* The library's call log *)

Entry(op, tag, uuid, ok, val) ==
    [op |-> op, tag |-> tag, uuid |-> uuid, ok |-> ok, val |-> val]

NoUUID == <<>>

\* Peripheral.getServiceByUUID(uuid): a fresh Service reference, or raises
getServiceByUUID(nh, lg, uuid, fails) ==
    IF fails
    THEN [nh |-> nh, ref |-> None, exc |-> "BTLEException",
          log |-> Append(lg, Entry("getServiceByUUID", "", uuid, FALSE, <<>>))]
    ELSE [nh |-> nh + 1, ref |-> nh + 1, exc |-> NoExc,
          log |-> Append(lg, Entry("getServiceByUUID", "", uuid, TRUE, <<nh + 1>>))]

\* Service.getCharacteristics(uuid)[0]: the first match, or raises when the
\* lookup fails or the list is empty
getCharacteristics(nh, lg, uuid, fails) ==
    IF fails
    THEN [nh |-> nh, ref |-> None, exc |-> "IndexError",
          log |-> Append(lg, Entry("getCharacteristics", "", uuid, FALSE, <<>>))]
    ELSE [nh |-> nh + 1, ref |-> nh + 1, exc |-> NoExc,
          log |-> Append(lg, Entry("getCharacteristics", "", uuid, TRUE, <<nh + 1>>))]

\* CharacteristicRead, had a missing reference been read through anyway
CharacteristicRead_unchecked(lg, ref, uuid, payload, fails) ==
    IF fails
    THEN [exc |-> "BTLEException", val |-> <<>>,
          log |-> Append(lg, Entry("read", "", uuid, FALSE, <<>>))]
    ELSE [exc |-> NoExc, val |-> payload,
          log |-> Append(lg, Entry("read", "", uuid, TRUE, payload))]

\* Characteristic.read() on reference `ref`; a None reference has no read()
CharacteristicRead(lg, ref, uuid, payload, fails) ==
    IF ref = None
    THEN [exc |-> "AttributeError", val |-> <<>>, log |-> lg]
    ELSE IF fails
    THEN [exc |-> "BTLEException", val |-> <<>>,
          log |-> Append(lg, Entry("read", "", uuid, FALSE, <<>>))]
    ELSE [exc |-> NoExc, val |-> payload,
          log |-> Append(lg, Entry("read", "", uuid, TRUE, payload))]

\* ord(s): the byte of a one-character string, TypeError otherwise
ord(s) ==
    IF Len(s) = 1 THEN [exc |-> NoExc, val |-> <<s[1]>>]
    ELSE [exc |-> "TypeError", val |-> <<>>]

\* unpack_h, had the format been "<H" (no sign)
unpack_h_unsigned(lo, hi) == hi * 256 + lo

\* struct's "<h": bytes taken from the most significant down, then the sign
\* bit is extended
unpack_h(lo, hi) ==
    LET x == hi * 256 + lo
    IN  x - 2 * 32768 * ((x \div 32768) % 2)

\* struct.unpack("<hhh", data): exactly 6 bytes, struct.error otherwise
struct_unpack_hhh(data) ==
    IF Len(data) # 6 THEN [exc |-> "struct.error", val |-> <<>>]
    ELSE [exc |-> NoExc,
          val |-> <<unpack_h(data[1], data[2]),
                    unpack_h(data[3], data[4]),
                    unpack_h(data[5], data[6])>>]

-----------------------------------------------------------------------------
(* Service wrappers.  enable() takes the lookup the library would fail     *)
(* ("none", "service", "data", "dataA", "dataB"); read() takes whether the *)
(* library's read fails.                                                   *)

\* TemperatureService.__init__ / AcceleratorService.__init__
NewService == [service |-> None, data |-> None]

\* ButtonsService.__init__
NewButtons == [service |-> None, dataA |-> None, dataB |-> None]

TemperatureService_svcUUID == Microbit_UUID(TEMP_SERVICE)

TemperatureService_dataUUID == Microbit_UUID(TEMP_DATA)

AcceleratorService_svcUUID == Microbit_UUID(ACCEL_SERVICE)

AcceleratorService_dataUUID == Microbit_UUID(ACCEL_DATA)

ButtonsService_svcUUID == Microbit_UUID(BTN_SERVICE)

ButtonsService_dataUUID_btnA == Microbit_UUID(BTN_A_STATE)

ButtonsService_dataUUID_btnB == Microbit_UUID(BTN_B_STATE)

Kept(nh, lg, ref) == [nh |-> nh, ref |-> ref, exc |-> NoExc, log |-> lg]

\* TemperatureService.enable, had it resolved without the None tests
TemperatureService_enable_always(self, nh, lg, fail) ==
    LET r1 == getServiceByUUID(nh, lg, TemperatureService_svcUUID, fail = "service")
        s1 == [self EXCEPT !.service = r1.ref]
        r2 == getCharacteristics(r1.nh, r1.log, TemperatureService_dataUUID, fail = "data")
        s2 == [s1 EXCEPT !.data = r2.ref]
    IN  IF r1.exc # NoExc THEN [self |-> self, nh |-> r1.nh, log |-> r1.log, exc |-> r1.exc]
        ELSE IF r2.exc # NoExc THEN [self |-> s1, nh |-> r2.nh, log |-> r2.log, exc |-> r2.exc]
        ELSE [self |-> s2, nh |-> r2.nh, log |-> r2.log, exc |-> NoExc]

TemperatureService_enable(self, nh, lg, fail) ==
    LET r1 == IF self.service = None
              THEN getServiceByUUID(nh, lg, TemperatureService_svcUUID, fail = "service")
              ELSE Kept(nh, lg, self.service)
        s1 == [self EXCEPT !.service = r1.ref]
        r2 == IF s1.data = None
              THEN getCharacteristics(r1.nh, r1.log, TemperatureService_dataUUID, fail = "data")
              ELSE Kept(r1.nh, r1.log, s1.data)
        s2 == [s1 EXCEPT !.data = r2.ref]
    IN  IF r1.exc # NoExc THEN [self |-> self, nh |-> r1.nh, log |-> r1.log, exc |-> r1.exc]
        ELSE IF r2.exc # NoExc THEN [self |-> s1, nh |-> r2.nh, log |-> r2.log, exc |-> r2.exc]
        ELSE [self |-> s2, nh |-> r2.nh, log |-> r2.log, exc |-> NoExc]

TemperatureService_read(self, lg, payload, fails) ==
    LET r == CharacteristicRead(lg, self.data, TemperatureService_dataUUID, payload, fails)
        v == ord(r.val)
    IN  IF r.exc # NoExc THEN r
        ELSE [exc |-> v.exc, val |-> v.val, log |-> r.log]

AcceleratorService_enable(self, nh, lg, fail) ==
    LET r1 == IF self.service = None
              THEN getServiceByUUID(nh, lg, AcceleratorService_svcUUID, fail = "service")
              ELSE Kept(nh, lg, self.service)
        s1 == [self EXCEPT !.service = r1.ref]
        r2 == IF s1.data = None
              THEN getCharacteristics(r1.nh, r1.log, AcceleratorService_dataUUID, fail = "data")
              ELSE Kept(r1.nh, r1.log, s1.data)
        s2 == [s1 EXCEPT !.data = r2.ref]
    IN  IF r1.exc # NoExc THEN [self |-> self, nh |-> r1.nh, log |-> r1.log, exc |-> r1.exc]
        ELSE IF r2.exc # NoExc THEN [self |-> s1, nh |-> r2.nh, log |-> r2.log, exc |-> r2.exc]
        ELSE [self |-> s2, nh |-> r2.nh, log |-> r2.log, exc |-> NoExc]

AcceleratorService_read(self, lg, payload, fails) ==
    LET r == CharacteristicRead(lg, self.data, AcceleratorService_dataUUID, payload, fails)
        v == struct_unpack_hhh(r.val)
    IN  IF r.exc # NoExc THEN r
        ELSE [exc |-> v.exc, val |-> v.val, log |-> r.log]

ButtonsService_enable(self, nh, lg, fail) ==
    LET r1 == IF self.service = None
              THEN getServiceByUUID(nh, lg, ButtonsService_svcUUID, fail = "service")
              ELSE Kept(nh, lg, self.service)
        s1 == [self EXCEPT !.service = r1.ref]
        r2 == IF s1.dataA = None
              THEN getCharacteristics(r1.nh, r1.log, ButtonsService_dataUUID_btnA, fail = "dataA")
              ELSE Kept(r1.nh, r1.log, s1.dataA)
        s2 == [s1 EXCEPT !.dataA = r2.ref]
        r3 == IF s2.dataB = None
              THEN getCharacteristics(r2.nh, r2.log, ButtonsService_dataUUID_btnB, fail = "dataB")
              ELSE Kept(r2.nh, r2.log, s2.dataB)
        s3 == [s2 EXCEPT !.dataB = r3.ref]
    IN  IF r1.exc # NoExc THEN [self |-> self, nh |-> r1.nh, log |-> r1.log, exc |-> r1.exc]
        ELSE IF r2.exc # NoExc THEN [self |-> s1, nh |-> r2.nh, log |-> r2.log, exc |-> r2.exc]
        ELSE IF r3.exc # NoExc THEN [self |-> s2, nh |-> r3.nh, log |-> r3.log, exc |-> r3.exc]
        ELSE [self |-> s3, nh |-> r3.nh, log |-> r3.log, exc |-> NoExc]

ButtonsService_read_btnA(self, lg, payload, fails) ==
    LET r == CharacteristicRead(lg, self.dataA, ButtonsService_dataUUID_btnA, payload, fails)
        v == ord(r.val)
    IN  IF r.exc # NoExc THEN r
        ELSE [exc |-> v.exc, val |-> v.val, log |-> r.log]

ButtonsService_read_btnB(self, lg, payload, fails) ==
    LET r == CharacteristicRead(lg, self.dataB, ButtonsService_dataUUID_btnB, payload, fails)
        v == ord(r.val)
    IN  IF r.exc # NoExc THEN r
        ELSE [exc |-> v.exc, val |-> v.val, log |-> r.log]

\* read(): button A, then button B; failsA / failsB are the library's reads
ButtonsService_read(self, lg, payloadA, payloadB, failsA, failsB) ==
    LET a == ButtonsService_read_btnA(self, lg, payloadA, failsA)
        b == ButtonsService_read_btnB(self, a.log, payloadB, failsB)
    IN  IF a.exc # NoExc THEN a
        ELSE IF b.exc # NoExc THEN b
        ELSE [exc |-> NoExc, val |-> a.val \o b.val, log |-> b.log]

-----------------------------------------------------------------------------
(* The device handle and the library calls main() makes on it *)

\* Peripheral.__init__(addr, addrType, iface): the connection it opens
Peripheral(addr, addrType, iface) ==
    [addr |-> addr, addrType |-> addrType, iface |-> iface, open |-> TRUE]

\* Microbit.__init__(addr, iface=None)
Microbit(addr, iface) == Peripheral(addr, ADDR_TYPE_RANDOM, iface)

\* p.disconnect() on the connection main() holds: the one opened last
disconnect(cs) == [cs EXCEPT ![Len(cs)].open = FALSE]

PrintLine(lg, tag, val) == Append(lg, Entry("print", tag, NoUUID, TRUE, val))

Call(lg, op, tag, ok, val) == Append(lg, Entry(op, tag, NoUUID, ok, val))

-----------------------------------------------------------------------------
(* main() *)

\* services_requested, had --buttons been left out of it
services_requested_noButtons == args.temperature \/ args.accelerator

services_requested == args.temperature \/ args.accelerator \/ args.buttons

\* SecurityLevel, had just-works been grouped with the low tier
SecurityLevel_justWorksLow(security) ==
    IF security \in {"low", "no-pairing", "just-works"} THEN "low"
    ELSE IF security \in {"medium"} THEN "medium"
    ELSE "unsupported"

\* the level main() hands to setSecurityLevel, or "unsupported"
SecurityLevel(security) ==
    IF security \in {"low", "no-pairing"} THEN "low"
    ELSE IF security \in {"just-works", "medium"} THEN "medium"
    ELSE "unsupported"

\* UnpairTolerated, had the status not been tested
UnpairTolerated_anyDisconnect(e) == e.code = "DISCONNECTED"

\* the except clause of the unpair step: is this failure swallowed?
UnpairTolerated(e) == e.code = "DISCONNECTED" /\ e.estat = 6

\* sys.exit(status) outside any try block
SysExit(status) ==
    /\ pc' = "done"
    /\ exitCode' = status

\* an exception leaving main() uncaught: traceback, exit status 1
Uncaught(e) ==
    /\ pc' = "done"
    /\ exc' = e
    /\ exitCode' = 1

ArgSpace ==
    [mac_address : MacAddresses, count : 0..MaxCount, t : PollDelays,
     temperature : BOOLEAN, accelerator : BOOLEAN, buttons : BOOLEAN,
     security : SecurityChoices, pair : BOOLEAN, interface : Interfaces,
     debug : BOOLEAN]

\* the device at mac_address: a micro:bit (one byte of temperature, six of
\* acceleration, one per button), or one whose values have other lengths
DeviceSpace ==
    [temp : {<<20>>, <<1, 2>>}, accel : {<<1, 0, 254, 255, 0, 128>>, <<1, 2, 3>>},
     btnA : {<<1>>}, btnB : {<<0>>, <<>>}]

NoResult == [op |-> "", exc |-> NoExc, val |-> <<>>]

Init ==
    /\ args \in ArgSpace
    /\ dev \in DeviceSpace
    /\ pc = "parse"
    /\ exitCode = 0
    /\ exc = NoExc
    /\ Debugging = FALSE
    /\ conns = <<>>
    /\ temperature = NewService
    /\ accelerator = NewService
    /\ buttons = NewButtons
    /\ counter = 0
    /\ nextHandle = 0
    /\ log = <<>>
    /\ result = NoResult
    /\ nops = 0

\* lines 166-175: flag validation, the debug flag, the choice of flow
ParseArgs ==
    /\ pc = "parse"
    /\ IF args.pair /\ services_requested
       THEN SysExit(1) /\ UNCHANGED Debugging
       ELSE IF ~args.pair /\ ~services_requested
       THEN SysExit(1) /\ UNCHANGED Debugging
       ELSE /\ Debugging' = IF args.debug THEN TRUE ELSE Debugging
            /\ pc' = IF args.pair THEN "pair_connect" ELSE "poll_connect"
            /\ UNCHANGED exitCode
    /\ UNCHANGED <<args, dev, exc, conns, temperature, accelerator, buttons,
                   counter, nextHandle, log, result, nops>>

\* line 176
PairConnect ==
    /\ pc = "pair_connect"
    /\ \E fails \in BOOLEAN :
         IF fails
         THEN /\ Uncaught("BTLEException")
              /\ log' = Call(log, "connect", "Peripheral", FALSE, <<>>)
              /\ UNCHANGED conns
         ELSE /\ conns' = Append(conns, Peripheral(args.mac_address, ADDR_TYPE_RANDOM, args.interface))
              /\ log' = Call(log, "connect", "Peripheral", TRUE, <<>>)
              /\ pc' = "unpair"
              /\ UNCHANGED <<exc, exitCode>>
    /\ UNCHANGED <<args, dev, Debugging, temperature, accelerator, buttons,
                   counter, nextHandle, result, nops>>

\* lines 177-184
PairUnpair ==
    /\ pc = "unpair"
    /\ \/ /\ log' = Call(log, "unpair", "", TRUE, <<>>)
          /\ pc' = "pair_disconnect"
          /\ UNCHANGED <<exc, exitCode>>
       \/ \E e \in UnpairErrors :
            IF UnpairTolerated(e)
            THEN /\ log' = PrintLine(Call(log, "unpair", e.code, FALSE, <<e.estat>>),
                                 "unpair failed: not-paired (which is OK)", <<>>)
                 /\ pc' = "pair_disconnect"
                 /\ UNCHANGED <<exc, exitCode>>
            ELSE /\ log' = Call(log, "unpair", e.code, FALSE, <<e.estat>>)
                 /\ Uncaught("BTLEException")
    /\ UNCHANGED <<args, dev, Debugging, conns, temperature, accelerator,
                   buttons, counter, nextHandle, result, nops>>

\* line 185
PairDisconnect ==
    /\ pc = "pair_disconnect"
    /\ conns' = disconnect(conns)
    /\ log' = Call(log, "disconnect", "", TRUE, <<>>)
    /\ pc' = "reconnect"
    /\ UNCHANGED <<args, dev, exitCode, exc, Debugging, temperature,
                   accelerator, buttons, counter, nextHandle, result, nops>>

\* line 186
PairReconnect ==
    /\ pc = "reconnect"
    /\ \E fails \in BOOLEAN :
         IF fails
         THEN /\ Uncaught("BTLEException")
              /\ log' = Call(log, "connect", "Peripheral", FALSE, <<>>)
              /\ UNCHANGED conns
         ELSE /\ conns' = Append(conns, Peripheral(args.mac_address, ADDR_TYPE_RANDOM, args.interface))
              /\ log' = Call(log, "connect", "Peripheral", TRUE, <<>>)
              /\ pc' = "pair"
              /\ UNCHANGED <<exc, exitCode>>
    /\ UNCHANGED <<args, dev, Debugging, temperature, accelerator, buttons,
                   counter, nextHandle, result, nops>>

\* line 187
PairPair ==
    /\ pc = "pair"
    /\ \E fails \in BOOLEAN :
         IF fails
         THEN /\ Uncaught("BTLEException")
              /\ log' = Call(log, "pair", "", FALSE, <<>>)
         ELSE /\ log' = Call(log, "pair", "", TRUE, <<>>)
              /\ pc' = "report"
              /\ UNCHANGED <<exc, exitCode>>
    /\ UNCHANGED <<args, dev, Debugging, conns, temperature, accelerator,
                   buttons, counter, nextHandle, result, nops>>

\* lines 189-191
PairReport ==
    /\ pc = "report"
    /\ log' = PrintLine(log, "Paired.", <<>>)
    /\ SysExit(0)
    /\ UNCHANGED <<args, dev, exc, Debugging, conns, temperature, accelerator,
                   buttons, counter, nextHandle, result, nops>>

\* lines 194-195: Microbit(args.mac_address), no iface given
PollConnect ==
    /\ pc = "poll_connect"
    /\ \E fails \in BOOLEAN :
         IF fails
         THEN /\ Uncaught("BTLEException")
              /\ log' = Call(PrintLine(log, "Connecting to", <<>>), "connect", "Microbit", FALSE, <<>>)
              /\ UNCHANGED <<conns, temperature, accelerator, buttons>>
         ELSE /\ conns' = Append(conns, Microbit(args.mac_address, None))
              /\ temperature' = NewService
              /\ accelerator' = NewService
              /\ buttons' = NewButtons
              /\ log' = Call(PrintLine(log, "Connecting to", <<>>), "connect", "Microbit", TRUE, <<>>)
              /\ pc' = "security"
              /\ UNCHANGED <<exc, exitCode>>
    /\ UNCHANGED <<args, dev, Debugging, counter, nextHandle, result, nops>>

\* lines 197-203: outside the try block
SetSecurity ==
    /\ pc = "security"
    /\ LET level == SecurityLevel(args.security)
           lg == PrintLine(log, "Setting security", <<>>)
       IN  IF level = "unsupported"
           THEN /\ log' = lg
                /\ SysExit(1)
                /\ UNCHANGED exc
           ELSE \E fails \in BOOLEAN :
                  IF fails
                  THEN /\ log' = Call(lg, "setSecurityLevel", level, FALSE, <<>>)
                       /\ Uncaught("BTLEException")
                  ELSE /\ log' = Call(lg, "setSecurityLevel", level, TRUE, <<>>)
                       /\ pc' = "enable_temperature"
                       /\ UNCHANGED <<exc, exitCode>>
    /\ UNCHANGED <<args, dev, Debugging, conns, temperature, accelerator,
                   buttons, counter, nextHandle, result, nops>>

\* Raise, had the failing step been retried instead of left
Raise_retry(e) ==
    /\ pc' = pc
    /\ exc' = exc

\* an exception inside the try block: control goes to the finally clause
Raise(e) ==
    /\ pc' = "finally"
    /\ exc' = e

\* lines 205-210
EnableTemperature ==
    /\ pc = "enable_temperature"
    /\ LET lg == PrintLine(log, "Enabling selected sensors...", <<>>)
       IN  IF args.temperature
           THEN \E fail \in {"none", "service", "data"} :
                  LET r == TemperatureService_enable(temperature, nextHandle, lg, fail)
                  IN  /\ temperature' = r.self
                      /\ nextHandle' = r.nh
                      /\ log' = r.log
                      /\ IF r.exc # NoExc THEN Raise(r.exc)
                         ELSE pc' = "enable_accelerator" /\ UNCHANGED exc
           ELSE /\ log' = lg
                /\ pc' = "enable_accelerator"
                /\ UNCHANGED <<temperature, nextHandle, exc>>
    /\ UNCHANGED <<args, dev, exitCode, Debugging, conns, accelerator, buttons,
                   counter, result, nops>>

\* lines 211-212
EnableAccelerator ==
    /\ pc = "enable_accelerator"
    /\ IF args.accelerator
       THEN \E fail \in {"none", "service", "data"} :
              LET r == AcceleratorService_enable(accelerator, nextHandle, log, fail)
              IN  /\ accelerator' = r.self
                  /\ nextHandle' = r.nh
                  /\ log' = r.log
                  /\ IF r.exc # NoExc THEN Raise(r.exc)
                     ELSE pc' = "enable_buttons" /\ UNCHANGED exc
       ELSE /\ pc' = "enable_buttons"
            /\ UNCHANGED <<accelerator, nextHandle, log, exc>>
    /\ UNCHANGED <<args, dev, exitCode, Debugging, conns, temperature, buttons,
                   counter, result, nops>>

\* lines 213-216
EnableButtons ==
    /\ pc = "enable_buttons"
    /\ IF args.buttons
       THEN \E fail \in {"none", "service", "dataA", "dataB"} :
              LET r == ButtonsService_enable(buttons, nextHandle, log, fail)
              IN  /\ buttons' = r.self
                  /\ nextHandle' = r.nh
                  /\ log' = r.log
                  /\ IF r.exc # NoExc THEN Raise(r.exc) /\ UNCHANGED counter
                     ELSE pc' = "read_temperature" /\ counter' = 1 /\ UNCHANGED exc
       ELSE /\ pc' = "read_temperature"
            /\ counter' = 1
            /\ UNCHANGED <<buttons, nextHandle, log, exc>>
    /\ UNCHANGED <<args, dev, exitCode, Debugging, conns, temperature,
                   accelerator, result, nops>>

\* lines 218-219
ReadTemperature ==
    /\ pc = "read_temperature"
    /\ IF args.temperature
       THEN \E fails \in BOOLEAN :
              LET r == TemperatureService_read(temperature, log, dev.temp, fails)
              IN  IF r.exc # NoExc
                  THEN log' = r.log /\ Raise(r.exc)
                  ELSE /\ log' = PrintLine(r.log, "Temperature", r.val)
                       /\ pc' = "read_accelerator"
                       /\ UNCHANGED exc
       ELSE pc' = "read_accelerator" /\ UNCHANGED <<log, exc>>
    /\ UNCHANGED <<args, dev, exitCode, Debugging, conns, temperature,
                   accelerator, buttons, counter, nextHandle, result, nops>>

\* lines 220-222
ReadAccelerator ==
    /\ pc = "read_accelerator"
    /\ IF args.accelerator
       THEN \E fails \in BOOLEAN :
              LET r == AcceleratorService_read(accelerator, log, dev.accel, fails)
              IN  IF r.exc # NoExc
                  THEN log' = r.log /\ Raise(r.exc)
                  ELSE /\ log' = PrintLine(r.log, "Accelerator", r.val)
                       /\ pc' = "read_buttons"
                       /\ UNCHANGED exc
       ELSE pc' = "read_buttons" /\ UNCHANGED <<log, exc>>
    /\ UNCHANGED <<args, dev, exitCode, Debugging, conns, temperature,
                   accelerator, buttons, counter, nextHandle, result, nops>>

\* lines 223-225
ReadButtons ==
    /\ pc = "read_buttons"
    /\ IF args.buttons
       THEN \E failsA, failsB \in BOOLEAN :
              LET r == ButtonsService_read(buttons, log, dev.btnA, dev.btnB, failsA, failsB)
              IN  IF r.exc # NoExc
                  THEN log' = r.log /\ Raise(r.exc)
                  ELSE /\ log' = PrintLine(r.log, "buttons", r.val)
                       /\ pc' = "loop"
                       /\ UNCHANGED exc
       ELSE pc' = "loop" /\ UNCHANGED <<log, exc>>
    /\ UNCHANGED <<args, dev, exitCode, Debugging, conns, temperature,
                   accelerator, buttons, counter, nextHandle, result, nops>>

\* LoopCheck, had the test been counter > args.count
LoopCheck_offByOne ==
    /\ pc = "loop"
    /\ IF counter > args.count
       THEN /\ pc' = "finally"
            /\ UNCHANGED <<counter, log, exc>>
       ELSE /\ counter' = counter + 1
            /\ \E fails \in BOOLEAN :
                 IF fails
                 THEN /\ log' = Call(log, "waitForNotifications", "", FALSE, <<args.t>>)
                      /\ pc' = "finally"
                      /\ exc' = "BTLEException"
                 ELSE /\ log' = Call(log, "waitForNotifications", "", TRUE, <<args.t>>)
                      /\ pc' = "read_temperature"
                      /\ UNCHANGED exc
    /\ UNCHANGED <<args, dev, exitCode, Debugging, conns, temperature,
                   accelerator, buttons, nextHandle, result, nops>>

\* lines 227-231
LoopCheck ==
    /\ pc = "loop"
    /\ IF counter >= args.count
       THEN /\ pc' = "finally"
            /\ UNCHANGED <<counter, log, exc>>
       ELSE /\ counter' = counter + 1
            /\ \E fails \in BOOLEAN :
                 IF fails
                 THEN /\ log' = Call(log, "waitForNotifications", "", FALSE, <<args.t>>)
                      /\ Raise("BTLEException")
                 ELSE /\ log' = Call(log, "waitForNotifications", "", TRUE, <<args.t>>)
                      /\ pc' = "read_temperature"
                      /\ UNCHANGED exc
    /\ UNCHANGED <<args, dev, exitCode, Debugging, conns, temperature,
                   accelerator, buttons, nextHandle, result, nops>>

\* lines 233-235, then main() returns or the exception leaves it
Finally ==
    /\ pc = "finally"
    /\ conns' = disconnect(conns)
    /\ log' = Call(log, "disconnect", "", TRUE, <<>>)
    /\ pc' = "done"
    /\ exitCode' = IF exc = NoExc THEN 0 ELSE 1
    /\ UNCHANGED <<args, dev, exc, Debugging, temperature, accelerator,
                   buttons, counter, nextHandle, result, nops>>

Next ==
    \/ ParseArgs
    \/ PairConnect
    \/ PairUnpair
    \/ PairDisconnect
    \/ PairReconnect
    \/ PairPair
    \/ PairReport
    \/ PollConnect
    \/ SetSecurity
    \/ EnableTemperature
    \/ EnableAccelerator
    \/ EnableButtons
    \/ ReadTemperature
    \/ ReadAccelerator
    \/ ReadButtons
    \/ LoopCheck
    \/ Finally

Spec == Init /\ [][Next]_vars

-----------------------------------------------------------------------------
(* The wrappers used directly, as a library: any sequence of enable() and  *)
(* read() calls on the three wrappers of one connected Microbit.  Each     *)
(* call's return (or raise) is appended to the log after the library calls *)
(* it made.                                                                *)

Return(lg, method, e, val) == Append(lg, Entry("return", method, NoUUID, e = NoExc, val))

Returned(method, e, val) == [op |-> method, exc |-> e, val |-> val]

ApiArgs ==
    [mac_address |-> "C0:FF:EE:00:00:01", count |-> 1, t |-> 1,
     temperature |-> FALSE, accelerator |-> FALSE, buttons |-> FALSE,
     security |-> "no-pairing", pair |-> FALSE, interface |-> 0, debug |-> FALSE]

\* a device behind the wrappers, well-formed or not
ApiDeviceSpace ==
    [temp : {<<23>>, <<1, 2>>}, accel : {<<1, 0, 254, 255, 0, 128>>, <<1, 2, 3>>},
     btnA : {<<1>>}, btnB : {<<0>>}]

InitApiWith(devices) ==
    /\ args = ApiArgs
    /\ dev \in devices
    /\ pc = "api"
    /\ exitCode = 0
    /\ exc = NoExc
    /\ Debugging = FALSE
    /\ conns = <<Microbit(ApiArgs.mac_address, None)>>
    /\ temperature = NewService
    /\ accelerator = NewService
    /\ buttons = NewButtons
    /\ counter = 0
    /\ nextHandle = 0
    /\ log = <<>>
    /\ result = NoResult
    /\ nops = 0

InitApi == InitApiWith(ApiDeviceSpace)

TemperatureEnableCall ==
    /\ pc = "api"
    /\ nops < MaxOps
    /\ \E fail \in {"none", "service", "data"} :
         LET r == TemperatureService_enable(temperature, nextHandle, log, fail)
         IN  /\ temperature' = r.self
             /\ nextHandle' = r.nh
             /\ log' = Return(r.log, "temperature.enable", r.exc, <<>>)
             /\ result' = Returned("temperature.enable", r.exc, <<>>)
    /\ nops' = nops + 1
    /\ UNCHANGED <<args, dev, pc, exitCode, exc, Debugging, conns, accelerator,
                   buttons, counter>>

TemperatureReadCall ==
    /\ pc = "api"
    /\ nops < MaxOps
    /\ \E fails \in BOOLEAN :
         LET r == TemperatureService_read(temperature, log, dev.temp, fails)
         IN  /\ log' = Return(r.log, "temperature.read", r.exc, r.val)
             /\ result' = Returned("temperature.read", r.exc, r.val)
    /\ nops' = nops + 1
    /\ UNCHANGED <<args, dev, pc, exitCode, exc, Debugging, conns, temperature,
                   accelerator, buttons, counter, nextHandle>>

AcceleratorEnableStep ==
    /\ pc = "api"
    /\ \E fail \in {"none", "service", "data"} :
         LET r == AcceleratorService_enable(accelerator, nextHandle, log, fail)
         IN  /\ accelerator' = r.self
             /\ nextHandle' = r.nh
             /\ log' = Return(r.log, "accelerator.enable", r.exc, <<>>)
             /\ result' = Returned("accelerator.enable", r.exc, <<>>)
    /\ nops' = nops + 1
    /\ UNCHANGED <<args, dev, pc, exitCode, exc, Debugging, conns, temperature,
                   buttons, counter>>

AcceleratorReadStep ==
    /\ pc = "api"
    /\ \E fails \in BOOLEAN :
         LET r == AcceleratorService_read(accelerator, log, dev.accel, fails)
         IN  /\ log' = Return(r.log, "accelerator.read", r.exc, r.val)
             /\ result' = Returned("accelerator.read", r.exc, r.val)
    /\ nops' = nops + 1
    /\ UNCHANGED <<args, dev, pc, exitCode, exc, Debugging, conns, temperature,
                   accelerator, buttons, counter, nextHandle>>

ButtonsEnableCall ==
    /\ pc = "api"
    /\ nops < MaxOps
    /\ \E fail \in {"none", "service", "dataA", "dataB"} :
         LET r == ButtonsService_enable(buttons, nextHandle, log, fail)
         IN  /\ buttons' = r.self
             /\ nextHandle' = r.nh
             /\ log' = Return(r.log, "buttons.enable", r.exc, <<>>)
             /\ result' = Returned("buttons.enable", r.exc, <<>>)
    /\ nops' = nops + 1
    /\ UNCHANGED <<args, dev, pc, exitCode, exc, Debugging, conns, temperature,
                   accelerator, counter>>

ButtonsReadBtnACall ==
    /\ pc = "api"
    /\ nops < MaxOps
    /\ \E fails \in BOOLEAN :
         LET r == ButtonsService_read_btnA(buttons, log, dev.btnA, fails)
         IN  /\ log' = Return(r.log, "buttons.read_btnA", r.exc, r.val)
             /\ result' = Returned("buttons.read_btnA", r.exc, r.val)
    /\ nops' = nops + 1
    /\ UNCHANGED <<args, dev, pc, exitCode, exc, Debugging, conns, temperature,
                   accelerator, buttons, counter, nextHandle>>

ButtonsReadBtnBCall ==
    /\ pc = "api"
    /\ nops < MaxOps
    /\ \E fails \in BOOLEAN :
         LET r == ButtonsService_read_btnB(buttons, log, dev.btnB, fails)
         IN  /\ log' = Return(r.log, "buttons.read_btnB", r.exc, r.val)
             /\ result' = Returned("buttons.read_btnB", r.exc, r.val)
    /\ nops' = nops + 1
    /\ UNCHANGED <<args, dev, pc, exitCode, exc, Debugging, conns, temperature,
                   accelerator, buttons, counter, nextHandle>>

ButtonsReadCall ==
    /\ pc = "api"
    /\ nops < MaxOps
    /\ \E failsA, failsB \in BOOLEAN :
         LET r == ButtonsService_read(buttons, log, dev.btnA, dev.btnB, failsA, failsB)
         IN  /\ log' = Return(r.log, "buttons.read", r.exc, r.val)
             /\ result' = Returned("buttons.read", r.exc, r.val)
    /\ nops' = nops + 1
    /\ UNCHANGED <<args, dev, pc, exitCode, exc, Debugging, conns, temperature,
                   accelerator, buttons, counter, nextHandle>>

AcceleratorEnableCall == nops < MaxOps /\ AcceleratorEnableStep

AcceleratorReadCall == nops < MaxOps /\ AcceleratorReadStep

NextApi ==
    \/ TemperatureEnableCall
    \/ TemperatureReadCall
    \/ AcceleratorEnableCall
    \/ AcceleratorReadCall
    \/ ButtonsEnableCall
    \/ ButtonsReadBtnACall
    \/ ButtonsReadBtnBCall
    \/ ButtonsReadCall

SpecApi == InitApi /\ [][NextApi]_vars

-----------------------------------------------------------------------------
(* The accelerometer wrapper alone, over every sample payload the device   *)
(* may return.                                                             *)

DecodeDeviceSpace ==
    [temp : {<<23>>}, accel : Payloads \cup {<<1, 0, 254, 255, 0, 128>>},
     btnA : {<<1>>}, btnB : {<<0>>}]

InitDecode == InitApiWith(DecodeDeviceSpace)

DecodeEnableCall == nops < MaxDecodeOps /\ AcceleratorEnableStep

DecodeReadCall == nops < MaxDecodeOps /\ AcceleratorReadStep

NextDecode ==
    \/ DecodeEnableCall
    \/ DecodeReadCall

SpecDecode == InitDecode /\ [][NextDecode]_vars

-----------------------------------------------------------------------------
(* Reading the log *)

Indices == 1..Len(log)

IsLookup(e) == e.op \in {"getServiceByUUID", "getCharacteristics"}

AnySensor == args.temperature \/ args.accelerator \/ args.buttons

PairFlow == args.pair /\ ~AnySensor

PollFlow == ~args.pair /\ AnySensor

\* what an entry of the log is, for the order of a polling run
Label(e) ==
    CASE e.op = "getServiceByUUID" /\ e.uuid[2] = TEMP_SERVICE -> "resolve temperature service"
      [] e.op = "getCharacteristics" /\ e.uuid[2] = TEMP_DATA -> "resolve temperature data"
      [] e.op = "getServiceByUUID" /\ e.uuid[2] = ACCEL_SERVICE -> "resolve accelerometer service"
      [] e.op = "getCharacteristics" /\ e.uuid[2] = ACCEL_DATA -> "resolve accelerometer data"
      [] e.op = "getServiceByUUID" /\ e.uuid[2] = BTN_SERVICE -> "resolve buttons service"
      [] e.op = "getCharacteristics" /\ e.uuid[2] = BTN_A_STATE -> "resolve button A"
      [] e.op = "getCharacteristics" /\ e.uuid[2] = BTN_B_STATE -> "resolve button B"
      [] e.op = "read" /\ e.uuid[2] = TEMP_DATA -> "read temperature"
      [] e.op = "read" /\ e.uuid[2] = ACCEL_DATA -> "read accelerometer"
      [] e.op = "read" /\ e.uuid[2] = BTN_A_STATE -> "read button A"
      [] e.op = "read" /\ e.uuid[2] = BTN_B_STATE -> "read button B"
      [] e.op = "print" /\ e.tag = "Temperature" -> "line temperature"
      [] e.op = "print" /\ e.tag = "Accelerator" -> "line accelerometer"
      [] e.op = "print" /\ e.tag = "buttons" -> "line buttons"
      [] e.op = "waitForNotifications" -> "wait"
      [] e.op = "disconnect" -> "disconnect"
      [] OTHER -> "other"

NotOther(l) == l # "other"

Events == SelectSeq([i \in Indices |-> Label(log[i])], NotOther)

IsPrefix(s, t) == Len(s) <= Len(t) /\ \A i \in 1..Len(s) : s[i] = t[i]

OpenConnections == {i \in 1..Len(conns) : conns[i].open}

-----------------------------------------------------------------------------
(* C1 *)

\* C1: when the driver has exited, on whatever path, every connection it
\* opened has been disconnected.
C1_AllConnectionsClosedAtExit ==
    pc = "done" => OpenConnections = {}

-----------------------------------------------------------------------------
(* C2 *)

\* C2: in the poll flow, once a sensor read has raised a transport failure,
\* nothing follows it in the log but one disconnect (no read, no retry, no
\* wait), the failure is propagating, and the run ends with exactly one
\* disconnect in all, the connection closed and a non-zero status.
C2_FailedReadStopsAndDisconnectsOnce ==
    \A k \in Indices :
        (log[k].op = "read" /\ ~log[k].ok) =>
            /\ PollFlow
            /\ exc # NoExc
            /\ pc \in {"finally", "done"}
            /\ \A j \in Indices : j > k => (j = k + 1 /\ log[j].op = "disconnect")
            /\ \A j \in Indices : j < k => log[j].op # "disconnect"
            /\ pc = "done" =>
                 /\ Len(log) = k + 1
                 /\ Cardinality({j \in Indices : log[j].op = "disconnect"}) = 1
                 /\ OpenConnections = {}
                 /\ exitCode # 0

\* a run that ended after a read failed in its second iteration
C2_Witness ==
    /\ pc = "done"
    /\ \E k \in Indices :
         /\ log[k].op = "read" /\ ~log[k].ok
         /\ \E j \in 1..(k - 1) : log[j].op = "waitForNotifications"

-----------------------------------------------------------------------------
(* C3 *)

\* C3: --pair with a sensor flag, or none of the four flags, ends the run
\* with a non-zero status and no connection attempted; every other
\* combination goes on to connect, through btle.Peripheral (pair flow) iff
\* --pair and through Microbit (poll flow) otherwise.
C3_FlagValidation ==
    LET rejected == (args.pair /\ AnySensor) \/ (~args.pair /\ ~AnySensor)
    IN  pc # "parse" =>
          IF rejected
          THEN pc = "done" /\ exitCode # 0 /\ log = <<>> /\ conns = <<>>
          ELSE /\ pc = (IF args.pair THEN "pair_connect" ELSE "poll_connect")
                  \/ \E i \in Indices :
                       /\ log[i].op = "connect"
                       /\ log[i].tag = (IF args.pair THEN "Peripheral" ELSE "Microbit")
                       /\ \A j \in 1..(i - 1) : log[j].op = "print"
               /\ \A i \in Indices :
                    log[i].op = "connect" =>
                      log[i].tag = (IF args.pair THEN "Peripheral" ELSE "Microbit")

\* --pair --buttons was rejected
C3_Witness ==
    /\ pc = "done"
    /\ args.pair /\ args.buttons
    /\ exitCode = 1
    /\ conns = <<>>

-----------------------------------------------------------------------------
(* C4 *)

C4_Level ==
    CASE args.security \in {"low", "no-pairing"} -> "low"
      [] args.security \in {"just-works", "medium"} -> "medium"
      [] OTHER -> "rejected"

\* C4: in the poll flow, passkey/high never reach setSecurityLevel, a lookup
\* or a read and end the run with a non-zero status at the security step;
\* the other tiers call setSecurityLevel at most once, with "low"
\* (low, no-pairing) or "medium" (just-works, medium), and exactly once,
\* successfully, before the first lookup of any sensor.
C4_SecurityTier ==
    PollFlow =>
      LET calls == {i \in Indices : log[i].op = "setSecurityLevel"}
          sensor == {i \in Indices : IsLookup(log[i]) \/ log[i].op = "read"}
      IN  IF C4_Level = "rejected"
          THEN /\ calls = {}
               /\ sensor = {}
               /\ pc \in {"parse", "poll_connect", "security", "done"}
               /\ pc = "done" => exitCode # 0
          ELSE /\ Cardinality(calls) <= 1
               /\ \A i \in calls : log[i].tag = C4_Level
               /\ pc \notin {"parse", "poll_connect", "security", "done"} =>
                    Cardinality(calls) = 1
               /\ \A j \in sensor : \E i \in calls : i < j /\ log[i].ok

\* a just-works run that has started to enable sensors
C4_Witness ==
    /\ args.security = "just-works"
    /\ \E j \in Indices : IsLookup(log[j])
    /\ \E i \in Indices : log[i].op = "setSecurityLevel" /\ log[i].tag = "medium"

-----------------------------------------------------------------------------
(* C7 *)

C7_Enables ==
    (IF args.temperature
     THEN <<"resolve temperature service", "resolve temperature data">> ELSE <<>>)
    \o (IF args.accelerator
        THEN <<"resolve accelerometer service", "resolve accelerometer data">> ELSE <<>>)
    \o (IF args.buttons
        THEN <<"resolve buttons service", "resolve button A", "resolve button B">> ELSE <<>>)

C7_Iteration ==
    (IF args.temperature THEN <<"read temperature", "line temperature">> ELSE <<>>)
    \o (IF args.accelerator THEN <<"read accelerometer", "line accelerometer">> ELSE <<>>)
    \o (IF args.buttons THEN <<"read button A", "read button B", "line buttons">> ELSE <<>>)

RECURSIVE C7_Iterations(_)
C7_Iterations(n) ==
    IF n <= 1 THEN C7_Iteration
    ELSE C7_Iterations(n - 1) \o <<"wait">> \o C7_Iteration

\* enable everything requested, n iterations with n-1 waits between them,
\* then one disconnect
C7_Expected == C7_Enables \o C7_Iterations(args.count) \o <<"disconnect">>

C7_NoTransportFailure == \A i \in Indices : log[i].ok

C7_SupportedTier == args.security \notin {"passkey", "high"}

C7_WellFormed ==
    /\ args.temperature => Len(dev.temp) = 1
    /\ args.accelerator => Len(dev.accel) = 6
    /\ args.buttons => Len(dev.btnA) = 1 /\ Len(dev.btnB) = 1

\* C7 as stated: a poll-flow run with n >= 1 and no transport failure ends
\* having done exactly: the enables, n iterations of the requested reads in
\* the order temperature, accelerometer, button A, button B with one line
\* per sensor, n-1 waits between iterations, one disconnect at the end.
C7_PollRunAsStated ==
    (PollFlow /\ args.count >= 1 /\ C7_NoTransportFailure /\ pc = "done") =>
        (Events = C7_Expected /\ exitCode = 0)

\* C7 amended: the same, for runs with a supported security tier and
\* well-formed values of the requested sensors; such a run follows the
\* expected sequence at every step and ends with all of it, status 0.
C7_PollRun ==
    (PollFlow /\ args.count >= 1 /\ C7_NoTransportFailure
       /\ C7_SupportedTier /\ C7_WellFormed) =>
        /\ IsPrefix(Events, C7_Expected)
        /\ pc = "done" => (Events = C7_Expected /\ exitCode = 0 /\ OpenConnections = {})

\* a complete run of two iterations over all three sensors
C7_Witness ==
    /\ pc = "done"
    /\ exitCode = 0
    /\ args.count = 2
    /\ args.temperature /\ args.accelerator /\ args.buttons
    /\ Events = C7_Expected

-----------------------------------------------------------------------------
(* C8 *)

C8_Step(e) ==
    CASE e.op \in {"connect", "unpair", "disconnect", "pair"} -> e.op
      [] e.op = "print" /\ e.tag = "Paired." -> "Paired."
      [] OTHER -> "other"

C8_Steps == SelectSeq([i \in Indices |-> C8_Step(log[i])], NotOther)

C8_Order == <<"connect", "unpair", "disconnect", "connect", "pair", "Paired.">>

\* the "not currently paired" signature: disconnected, status 6
C8_NotPaired(e) == e.op = "unpair" /\ ~e.ok /\ e.tag = "DISCONNECTED" /\ e.val = <<6>>

\* C8: the pair flow's steps come in the order connect, unpair, disconnect,
\* reconnect, pair, "Paired.", exit 0, with at most one connection open; a
\* failed step other than a not-paired unpair is the last thing done and
\* ends the run with a non-zero status and no "Paired."; a not-paired
\* unpair does not end the run; status 0 means all six steps were done.
C8_PairFlowOrder ==
    PairFlow =>
      /\ IsPrefix(C8_Steps, C8_Order)
      /\ Cardinality(OpenConnections) <= 1
      /\ \A k \in Indices :
           (~log[k].ok /\ ~C8_NotPaired(log[k])) =>
               /\ k = Len(log)
               /\ pc = "done"
               /\ exitCode # 0
               /\ \A j \in Indices : C8_Step(log[j]) # "Paired."
      /\ \A k \in Indices :
           C8_NotPaired(log[k]) =>
               /\ k < Len(log)
               /\ pc = "done" => Len(C8_Steps) > 2
      /\ (pc = "done" /\ exitCode = 0) => C8_Steps = C8_Order
      /\ (pc = "done" /\ C8_Steps = C8_Order) => exitCode = 0
      /\ pc = "done" =>
           (exitCode = 0 <=> \A k \in Indices : ~log[k].ok => C8_NotPaired(log[k]))

\* a pair run that met "not currently paired" and still ended with status 0
C8_Witness ==
    /\ pc = "done"
    /\ exitCode = 0
    /\ \E k \in Indices : C8_NotPaired(log[k])
    /\ C8_Steps = C8_Order

-----------------------------------------------------------------------------
(* C10 *)

\* the adapter a connection is opened on: the one given, or the library's
\* default adapter, index 0, when none is given
C10_Adapter(c) == IF c.iface = None THEN 0 ELSE c.iface

\* C10: every connection the driver opens is on adapter --interface, to
\* mac_address, with the random address type.
C10_ConnectionsUseInterface ==
    \A i \in 1..Len(conns) :
        /\ conns[i].addr = args.mac_address
        /\ conns[i].addrType = "random"
        /\ C10_Adapter(conns[i]) = args.interface

-----------------------------------------------------------------------------
(* C5 *)

Wrappers == {"temperature", "accelerator", "buttons"}

C5_EnableOf(w) ==
    CASE w = "temperature" -> "temperature.enable"
      [] w = "accelerator" -> "accelerator.enable"
      [] w = "buttons" -> "buttons.enable"

\* the 16-bit codes of the service and the characteristics of a wrapper
C5_Codes(w) ==
    CASE w = "temperature" -> <<24832, 37456>>
      [] w = "accelerator" -> <<1875, 51787>>
      [] w = "buttons" -> <<39042, 55952, 55953>>

C5_Refs(w) ==
    CASE w = "temperature" -> <<temperature.service, temperature.data>>
      [] w = "accelerator" -> <<accelerator.service, accelerator.data>>
      [] w = "buttons" -> <<buttons.service, buttons.dataA, buttons.dataB>>

C5_Resolutions(code) ==
    {j \in Indices : IsLookup(log[j]) /\ log[j].uuid[2] = code /\ log[j].ok}

\* C5: once an enable() of a wrapper has returned normally, no lookup of
\* that wrapper's service or characteristics is made again, each of them has
\* been resolved exactly once in all, and the wrapper still holds exactly
\* the references those resolutions returned.
C5_EnableIdempotent ==
    \A w \in Wrappers :
      \A i \in Indices :
        (log[i].op = "return" /\ log[i].tag = C5_EnableOf(w) /\ log[i].ok) =>
          /\ \A j \in Indices :
               (j > i /\ IsLookup(log[j])) =>
                   \A n \in DOMAIN C5_Codes(w) : log[j].uuid[2] # C5_Codes(w)[n]
          /\ \A n \in DOMAIN C5_Codes(w) :
               /\ Cardinality(C5_Resolutions(C5_Codes(w)[n])) = 1
               /\ \A j \in C5_Resolutions(C5_Codes(w)[n]) :
                    j < i /\ C5_Refs(w)[n] = log[j].val[1]

\* enable() of the buttons wrapper returned normally twice
C5_Witness ==
    \E i, j \in Indices :
        /\ i < j
        /\ log[i].op = "return" /\ log[i].tag = "buttons.enable" /\ log[i].ok
        /\ log[j].op = "return" /\ log[j].tag = "buttons.enable" /\ log[j].ok

-----------------------------------------------------------------------------
(* C6 *)

ReadMethods ==
    {"temperature.read", "accelerator.read", "buttons.read_btnA",
     "buttons.read_btnB", "buttons.read"}

C6_WrapperOf(m) ==
    CASE m = "temperature.read" -> "temperature"
      [] m = "accelerator.read" -> "accelerator"
      [] OTHER -> "buttons"

\* the reference a read method reads first
C6_FirstRef(m) ==
    CASE m = "temperature.read" -> temperature.data
      [] m = "accelerator.read" -> accelerator.data
      [] m = "buttons.read_btnB" -> buttons.dataB
      [] OTHER -> buttons.dataA

\* no enable() of the wrapper has returned normally so far
C6_NeverEnabled(w) ==
    \A i \in Indices :
        ~(log[i].op = "return" /\ log[i].tag = C5_EnableOf(w) /\ log[i].ok)

\* this step is a call of read method m
C6_Calls(m) == nops' = nops + 1 /\ result'.op = m

\* the call raised, made no library call, and changed no wrapper
C6_ErrorWithoutRead(m) ==
    /\ result'.exc # NoExc
    /\ log' = Append(log, Entry("return", m, NoUUID, FALSE, <<>>))
    /\ UNCHANGED <<temperature, accelerator, buttons>>

\* C6 as stated: a read call on a wrapper no enable() of which has returned
\* normally raises, reads nothing from the device and leaves the wrapper as
\* it was (still unresolved).
C6_UnresolvedReadAsStated ==
    [][\A m \in ReadMethods :
         (C6_Calls(m) /\ C6_NeverEnabled(C6_WrapperOf(m))) =>
             (C6_ErrorWithoutRead(m) /\ C6_NeverEnabled(C6_WrapperOf(m))')]_vars

\* C6 amended: a read call made while the reference it reads first is None
\* (as it is before the first enable() call) raises, reads nothing from the
\* device and leaves the wrapper as it was.
C6_UnresolvedRead ==
    [][\A m \in ReadMethods :
         (C6_Calls(m) /\ C6_FirstRef(m) = None) =>
             (C6_ErrorWithoutRead(m) /\ C6_FirstRef(m)' = None)]_vars

\* read() of the buttons wrapper raised on a wrapper whose enable() had
\* failed after resolving the service
C6_Witness ==
    /\ result.op = "buttons.read"
    /\ result.exc = "AttributeError"
    /\ buttons.service # None
    /\ buttons.dataA = None
    /\ log[Len(log)] = Entry("return", "buttons.read", NoUUID, FALSE, <<>>)

-----------------------------------------------------------------------------
(* C9 *)

\* the device's value reached the wrapper: the library's read returned
C9_ReadReturned ==
    /\ result.op = "accelerator.read"
    /\ Len(log) >= 2
    /\ log[Len(log) - 1].op = "read"
    /\ log[Len(log) - 1].ok

\* C9: read() of the enabled accelerometer wrapper, given a 6-byte value,
\* returns three numbers, each in -32768..32767 and congruent modulo 65536
\* to lo + 256*hi of its byte pair; given a value of any other length it
\* raises and returns nothing.  x01 x00 xFE xFF x00 x80 gives (1, -2, -32768).
C9_AccelerometerDecode ==
    C9_ReadReturned =>
      LET p == dev.accel
          v == result.val
      IN  /\ accelerator.data # None
          /\ IF Len(p) = 6
             THEN /\ result.exc = NoExc
                  /\ Len(v) = 3
                  /\ \A i \in 1..3 :
                       /\ v[i] \in -32768..32767
                       /\ (v[i] - (p[2 * i - 1] + 256 * p[2 * i])) % 65536 = 0
             ELSE result.exc # NoExc /\ v = <<>>
          /\ p = <<1, 0, 254, 255, 0, 128>> => v = <<1, -2, -32768>>

\* a 6-byte value decoded to a negative x and a positive y
C9_Witness ==
    /\ C9_ReadReturned
    /\ result.exc = NoExc
    /\ result.val[1] < 0
    /\ result.val[2] > 0

====
